---- MODULE Spec2Model ----
(***************************************************************************)
(* Hit detection of replay_analysis/analysis/hit_detection/base_hit.py.    *)
(*                                                                         *)
(* BaseHit.get_hits_from_game is modelled as a state machine: one step for *)
(* the prologue (team_dict and candidate frames), one step per candidate   *)
(* frame header (lines 67-73), one step per player of the responsible team *)
(* (lines 74-98), one step for the acceptance and the hit record of the    *)
(* frame (lines 102-120) and one for the return (line 124).                *)
(*                                                                         *)
(* The match is immutable input.  The ball's angular velocities are drawn  *)
(* in Init (the selector reads all of them at once); a ball row            *)
(* (hit_team_no, position) and a player row (position, rotation) are drawn *)
(* when the loop reads them, and a ball row that has been read is kept in  *)
(* `ball` so that a second read returns the same row.                      *)
(*                                                                         *)
(* A float sample is an optional value: <<>> is NaN and <<v>> is the       *)
(* number v, so that a missing value is never a number.                    *)
(*                                                                         *)
(* get_hitbox, unrotate_position and get_distance are called by the        *)
(* resolver but are neither defined nor imported in base_hit.py; they are  *)
(* modelled as the collision oracle of the specification (section 4.3):    *)
(* the scalar it returns for a complete player row is part of the row.     *)
(* id_creation (line 115) is external: the hit keeps the player's name.    *)
(***************************************************************************)
EXTENDS Integers, Sequences, FiniteSets, TLC

\* ------------------------------------------------------------------ bounds
NFrames == 3

\* --------------------------------------------------------------- constants
COLLISION_DISTANCE_HIGH_LIMIT == 500
COLLISION_DISTANCE_LOW_LIMIT == 250
NO_STRIKER_DISTANCE == 999999

\* ------------------------------------------------------------ float values
NaN == <<>>
Val(v) == <<v>>
V3(a, b, c) == <<Val(a), Val(b), Val(c)>>
NaN3 == <<NaN, NaN, NaN>>
None == "None"
NoVector == <<>>

Frames == 0 .. (NFrames - 1)

\* pandas float subtraction: NaN if either operand is NaN
Sub(a, b) == IF a = NaN \/ b = NaN THEN NaN ELSE Val(a[1] - b[1])

VecSub(u, v) == [k \in 1..3 |-> Sub(u[k], v[k])]

\* ------------------------------------------------------------- the match
\* game.teams: team.is_orange (False = 0, True = 1) and team.players in order
teams ==
  << [is_orange |-> 0, players |-> <<"p1", "p2">>],
     [is_orange |-> 1, players |-> <<"p3">>] >>

\* lines 28-31: team_dict[team.is_orange] = team
team_dict == [o \in {teams[t].is_orange : t \in 1..Len(teams)} |->
                (CHOOSE t \in 1..Len(teams) : teams[t].is_orange = o)]

TeamPlayers(o) == teams[team_dict[o]].players

\* angular-velocity samples of the ball, for the resolver runs
AngVelSamples == {V3(0, 0, 0), V3(1, 1, 0), NaN3}

\* angular-velocity samples of the ball, for the runs of the selector alone
AllAngVelSamples == [1..3 -> {NaN, Val(0), Val(1)}]

HitTeamNumbers == {NaN, Val(0), Val(1)}
BallPositions == {V3(0, 0, 0), V3(1, 0, 0)}
BallRows == [hit_team_no : HitTeamNumbers, pos : BallPositions]

\* data_frame.at[frame_number, ('game', 'goal_number')]
GoalNumbers == {NaN, Val(1)}

PlayerPositions == {V3(0, 0, 0), V3(1, 0, 0), <<NaN, Val(1), Val(0)>>, NaN3}
PlayerRotations == {V3(0, 0, 0), V3(0, 1, 0), NaN3}
HitboxDistances == {10, COLLISION_DISTANCE_HIGH_LIMIT - 1, COLLISION_DISTANCE_HIGH_LIMIT}
NoRow == [present |-> FALSE, pos |-> NaN3, rot |-> NaN3, hitbox_distance |-> 0]
PlayerRows ==
  {NoRow} \cup [present : {TRUE}, pos : PlayerPositions, rot : PlayerRotations,
                hitbox_distance : HitboxDistances]

VARIABLES
  pc,                      \* position in get_hits_from_game
  ball_ang_vel,            \* game.ball[['ang_vel_x','ang_vel_y','ang_vel_z']]
  ball,                    \* the rows of game.ball read so far
  hit_frame_numbers,       \* line 33
  i,                       \* position of the frame loop (line 67), 1-based
  team,                    \* is_orange of the team of line 69, or None
  j,                       \* position of the player loop (line 74), 1-based
  closest_player,          \* line 72
  closest_player_distance, \* line 73
  player_position,         \* line 80
  ball_position,           \* line 81
  ball_displacement,       \* line 82
  player_rotation,         \* line 84
  evaluated,               \* the get_distance results of this frame, in order
  all_hits,                \* line 29
  proto_hits,              \* proto_game.game_stats.hits
  returned,                \* the value returned at line 124
  exception                \* the exception that left the function, or None

vars == <<pc, ball_ang_vel, ball, hit_frame_numbers, i, team, j, closest_player,
          closest_player_distance, player_position, ball_position,
          ball_displacement, player_rotation, evaluated, all_hits, proto_hits,
          returned, exception>>

\* ------------------------------------------------- Kinematic Frame Selector
diff_first_row_zero(ang, f) ==
  IF f = 0 THEN VecSub(ang[f], V3(0, 0, 0)) ELSE VecSub(ang[f], ang[f - 1])

\* DataFrame.diff(): the first row has no predecessor and is all NaN
diff(ang, f) == IF f = 0 THEN NaN3 ELSE VecSub(ang[f], ang[f - 1])

any_axis1_nan_true(row) == \E k \in 1..3 : row[k] = NaN \/ row[k][1] # 0

\* DataFrame.any(axis=1), skipna=True: NaN is skipped, a number is true if # 0
any_axis1(row) == \E k \in 1..3 : row[k] # NaN /\ row[k][1] # 0

RECURSIVE Repeat(_, _)
Repeat(x, n) == IF n = 0 THEN <<>> ELSE <<x>> \o Repeat(x, n - 1)

RECURSIVE indices_per_component(_, _)
indices_per_component(ang, f) ==
  IF f >= NFrames THEN <<>>
  ELSE Repeat(f, Cardinality({k \in 1..3 : diff(ang, f)[k] # NaN /\ diff(ang, f)[k][1] # 0}))
       \o indices_per_component(ang, f + 1)

\* line 130: diff_series.index[diff_series].tolist(), from frame f on
RECURSIVE indices(_, _)
indices(ang, f) ==
  IF f >= NFrames THEN <<>>
  ELSE (IF any_axis1(diff(ang, f)) THEN <<f>> ELSE <<>>) \o indices(ang, f + 1)

get_hit_frame_numbers_per_component(ang) == indices_per_component(ang, 0)

get_hit_frame_numbers_by_ball_ang_vel(ang) == indices(ang, 0)

\* ------------------------------------------------ Coordinate Transform Pipeline
\* line 142: player_df[position_column_names] - ball_df[position_column_names]
get_player_ball_displacements(player_pos, ball_pos) == VecSub(player_pos, ball_pos)

\* ------------------------------------------------------------ Striker Resolver
\* line 82: ball_displacement = ball_position - player_position
ball_minus_player(ball_pos, player_pos) == VecSub(ball_pos, player_pos)

\* line 88: pd.concat([player_rotation, ball_displacement]);
\* labels 1..3 are rot_x, rot_y, rot_z and 4..6 are pos_x, pos_y, pos_z
joined(rotation, displacement) == rotation \o displacement
RotLabels == 1..3
PosLabels == 4..6

\* line 89: the labels that survive joined.dropna(inplace=True)
dropna(s) == {k \in 1..Len(s) : s[k] # NaN}

any_nonempty(s) == dropna(s) # {}

\* line 90: joined.any() on the cleaned series: some remaining value is not 0
any(s) == \E k \in dropna(s) : s[k][1] # 0

\* lines 91-92: joined.loc[[labels]] on the cleaned series.  All labels
\* present: the values.  No label present: KeyError.  Some labels present:
\* KeyError (pandas >= 1.0) or the missing ones reindexed as NaN (older pandas).
loc(s, labels) ==
  IF labels \subseteq dropna(s) THEN {"values"}
  ELSE IF labels \cap dropna(s) = {} THEN {"KeyError"}
  ELSE {"KeyError", "reindex"}

\* lines 93-95: get_distance(unrotate_position(displacement, rotation), hitbox);
\* the oracle's scalar for a complete row, NaN when a component is NaN
get_distance(s, hitbox_distance) ==
  IF dropna(s) = 1..Len(s) THEN Val(hitbox_distance) ELSE NaN

is_closer_or_equal(collision_distance, closest) ==
  collision_distance # NaN /\ collision_distance[1] <= closest

\* line 96: collision_distance < closest_player_distance (False for NaN)
is_closer(collision_distance, closest) ==
  collision_distance # NaN /\ collision_distance[1] < closest

accepts_at_limit(distance) == distance <= COLLISION_DISTANCE_HIGH_LIMIT

\* line 102: closest_player_distance < COLLISION_DISTANCE_HIGH_LIMIT
accepts(distance) == distance < COLLISION_DISTANCE_HIGH_LIMIT

ball_position_of_first_candidate(frame_number) == ball[hit_frame_numbers[1]].pos

\* line 81: game.ball.loc[frame_number, ['pos_x', 'pos_y', 'pos_z']]
ball_position_at(frame_number) == ball[frame_number].pos

\* the frame of the iteration of line 67
frame_number == hit_frame_numbers[i]

\* game.ball.loc[f, ...]: the row of frame f, the same at every read
ReadBallRows(f) == IF f \in DOMAIN ball THEN {ball[f]} ELSE BallRows

Put(fn, key, value) == [x \in (DOMAIN fn) \cup {key} |-> IF x = key THEN value ELSE fn[x]]

TypeOK ==
  /\ pc \in {"init", "loop", "players", "done", "raised"}
  /\ DOMAIN ball \subseteq Frames
  /\ DOMAIN all_hits \subseteq Frames

\* -------------------------------------------------------------------- Init
InitRest ==
  /\ pc = "init"
  /\ ball = <<>>
  /\ hit_frame_numbers = <<>>
  /\ i = 1
  /\ team = None
  /\ j = 1
  /\ closest_player = None
  /\ closest_player_distance = NO_STRIKER_DISTANCE
  /\ player_position = NoVector
  /\ ball_position = NoVector
  /\ ball_displacement = NoVector
  /\ player_rotation = NoVector
  /\ evaluated = <<>>
  /\ all_hits = <<>>
  /\ proto_hits = <<>>
  /\ returned = None
  /\ exception = None

Init ==
  /\ ball_ang_vel \in [Frames -> AngVelSamples]
  /\ InitRest

InitSelector ==
  /\ ball_ang_vel \in [Frames -> AllAngVelSamples]
  /\ InitRest

\* ------------------------------------------------------------------ actions
\* lines 28-33: team_dict and the candidate frames
Start ==
  /\ pc = "init"
  /\ hit_frame_numbers' = get_hit_frame_numbers_by_ball_ang_vel(ball_ang_vel)
  /\ i' = 1
  /\ pc' = "loop"
  /\ UNCHANGED <<ball_ang_vel, ball, team, j, closest_player, closest_player_distance,
                 player_position, ball_position, ball_displacement, player_rotation,
                 evaluated, all_hits, proto_hits, returned, exception>>

\* lines 67-71: the responsible team is not in team_dict: KeyError, continue
FrameUnknownTeam ==
  /\ pc = "loop"
  /\ i <= Len(hit_frame_numbers)
  /\ \E row \in ReadBallRows(frame_number) :
       /\ ~(row.hit_team_no # NaN /\ row.hit_team_no[1] \in DOMAIN team_dict)
       /\ ball' = Put(ball, frame_number, row)
  /\ i' = i + 1
  /\ UNCHANGED <<pc, ball_ang_vel, hit_frame_numbers, team, j, closest_player,
                 closest_player_distance, player_position, ball_position,
                 ball_displacement, player_rotation, evaluated, all_hits,
                 proto_hits, returned, exception>>

\* lines 67-73: the responsible team is known.  The temporaries of the player
\* loop are written (lines 80-84) before they are read (line 88) in every
\* iteration, so the values left by the previous frame are cleared here;
\* ball_position, which line 117 reads, is kept.
FrameKnownTeam ==
  /\ pc = "loop"
  /\ i <= Len(hit_frame_numbers)
  /\ \E row \in ReadBallRows(frame_number) :
       /\ row.hit_team_no # NaN /\ row.hit_team_no[1] \in DOMAIN team_dict
       /\ ball' = Put(ball, frame_number, row)
       /\ team' = row.hit_team_no[1]
  /\ closest_player' = None
  /\ closest_player_distance' = NO_STRIKER_DISTANCE
  /\ j' = 1
  /\ evaluated' = <<>>
  /\ player_position' = NoVector
  /\ ball_displacement' = NoVector
  /\ player_rotation' = NoVector
  /\ pc' = "players"
  /\ UNCHANGED <<ball_ang_vel, hit_frame_numbers, i, ball_position, all_hits,
                 proto_hits, returned, exception>>

\* the player of the iteration of line 74
player == TeamPlayers(team)[j]

\* lines 79-86: the player has no row at this frame: KeyError at line 80, continue
PlayerNoRow ==
  /\ pc = "players"
  /\ j <= Len(TeamPlayers(team))
  /\ \E row \in PlayerRows : ~row.present
  /\ j' = j + 1
  /\ UNCHANGED <<pc, ball_ang_vel, ball, hit_frame_numbers, i, team, closest_player,
                 closest_player_distance, player_position, ball_position,
                 ball_displacement, player_rotation, evaluated, all_hits,
                 proto_hits, returned, exception>>

\* lines 80-84 for a row that exists
ReadRow(row) ==
  /\ row.present
  /\ player_position' = row.pos
  /\ ball_position' = ball_position_at(frame_number)
  /\ ball_displacement' = ball_minus_player(ball_position_at(frame_number), row.pos)
  /\ player_rotation' = row.rot

\* lines 88-90: joined.any() is false: the player is not evaluated
PlayerNotEvaluated ==
  /\ pc = "players"
  /\ j <= Len(TeamPlayers(team))
  /\ \E row \in PlayerRows :
       /\ ReadRow(row)
       /\ ~any(joined(row.rot, ball_minus_player(ball_position_at(frame_number), row.pos)))
  /\ j' = j + 1
  /\ UNCHANGED <<pc, ball_ang_vel, ball, hit_frame_numbers, i, team, closest_player,
                 closest_player_distance, evaluated, all_hits, proto_hits,
                 returned, exception>>

\* lines 91-92: a label removed by dropna is asked of joined.loc outside the
\* try block: the KeyError leaves get_hits_from_game
PlayerKeyError ==
  /\ pc = "players"
  /\ j <= Len(TeamPlayers(team))
  /\ \E row \in PlayerRows :
       /\ ReadRow(row)
       /\ LET s == joined(row.rot, ball_minus_player(ball_position_at(frame_number), row.pos))
          IN /\ any(s)
             /\ "KeyError" \in loc(s, PosLabels) \cup loc(s, RotLabels)
  /\ pc' = "raised"
  /\ exception' = "KeyError"
  /\ UNCHANGED <<ball_ang_vel, ball, hit_frame_numbers, i, team, j, closest_player,
                 closest_player_distance, evaluated, all_hits, proto_hits, returned>>

\* lines 91-98: the player is evaluated by the collision model
PlayerEvaluated ==
  /\ pc = "players"
  /\ j <= Len(TeamPlayers(team))
  /\ \E row \in PlayerRows :
       /\ ReadRow(row)
       /\ LET s == joined(row.rot, ball_minus_player(ball_position_at(frame_number), row.pos))
              collision_distance == get_distance(s, row.hitbox_distance)
          IN /\ any(s)
             /\ loc(s, PosLabels) \cap {"values", "reindex"} # {}
             /\ loc(s, RotLabels) \cap {"values", "reindex"} # {}
             /\ evaluated' = Append(evaluated, [player |-> player, index |-> j,
                                                collision_distance |-> collision_distance])
             /\ IF is_closer(collision_distance, closest_player_distance)
                  THEN /\ closest_player' = player
                       /\ closest_player_distance' = collision_distance[1]
                  ELSE UNCHANGED <<closest_player, closest_player_distance>>
  /\ j' = j + 1
  /\ UNCHANGED <<pc, ball_ang_vel, ball, hit_frame_numbers, i, team, all_hits,
                 proto_hits, returned, exception>>

\* lines 102-120: the closest player is accepted and the hit is recorded
HitAccepted ==
  /\ pc = "players"
  /\ j > Len(TeamPlayers(team))
  /\ accepts(closest_player_distance)
  /\ closest_player # None
  /\ \E goal_number \in GoalNumbers :
       LET hit == [frame_number |-> frame_number,
                   goal_number |-> goal_number,
                   player |-> closest_player,
                   collision_distance |-> closest_player_distance,
                   ball_data |-> ball_position]
       IN /\ proto_hits' = Append(proto_hits, hit)
          /\ all_hits' = Put(all_hits, frame_number, hit)
  /\ i' = i + 1
  /\ pc' = "loop"
  /\ UNCHANGED <<ball_ang_vel, ball, hit_frame_numbers, team, j, closest_player,
                 closest_player_distance, player_position, ball_position,
                 ball_displacement, player_rotation, evaluated, returned, exception>>

\* lines 102-109: no player is accepted, no hit for this frame
HitRejected ==
  /\ pc = "players"
  /\ j > Len(TeamPlayers(team))
  /\ ~(accepts(closest_player_distance) /\ closest_player # None)
  /\ i' = i + 1
  /\ pc' = "loop"
  /\ UNCHANGED <<ball_ang_vel, ball, hit_frame_numbers, team, j, closest_player,
                 closest_player_distance, player_position, ball_position,
                 ball_displacement, player_rotation, evaluated, all_hits,
                 proto_hits, returned, exception>>

\* line 124: return all_hits
Return ==
  /\ pc = "loop"
  /\ i > Len(hit_frame_numbers)
  /\ returned' = all_hits
  /\ pc' = "done"
  /\ UNCHANGED <<ball_ang_vel, ball, hit_frame_numbers, i, team, j, closest_player,
                 closest_player_distance, player_position, ball_position,
                 ball_displacement, player_rotation, evaluated, all_hits,
                 proto_hits, exception>>

Next ==
  \/ Start
  \/ FrameUnknownTeam
  \/ FrameKnownTeam
  \/ PlayerNoRow
  \/ PlayerNotEvaluated
  \/ PlayerKeyError
  \/ PlayerEvaluated
  \/ HitAccepted
  \/ HitRejected
  \/ Return

Spec == Init /\ [][Next]_vars

\* the selector alone, over every combination of defined and undefined samples
NextSelector == Start

SpecSelector == InitSelector /\ [][NextSelector]_vars

\* ---------------------------------------------------------------- properties
\* the frame whose iteration of the loop of line 67 has just ended
FrameDone == pc \in {"loop", "done"} /\ i > 1
LastFrame == hit_frame_numbers[i - 1]
TeamKnown(f) == ball[f].hit_team_no # NaN /\ ball[f].hit_team_no[1] \in DOMAIN team_dict

\* the numbers the collision model returned for the players of this frame
EvaluatedDistances ==
  {evaluated[k].collision_distance[1] :
     k \in {n \in 1..Len(evaluated) : evaluated[n].collision_distance # NaN}}
Minimum(S) == CHOOSE m \in S : \A d \in S : m <= d

Candidates == {hit_frame_numbers[k] : k \in 1..Len(hit_frame_numbers)}
Changed(f) ==
  /\ f > 0
  /\ \E c \in 1..3 : /\ ball_ang_vel[f][c] # NaN
                     /\ ball_ang_vel[f - 1][c] # NaN
                     /\ ball_ang_vel[f][c] # ball_ang_vel[f - 1][c]
HasNaN(v) == \E k \in 1..Len(v) : v[k] = NaN

\* C1: a frame whose iteration has ended has a Hit Event if and only if its
\* responsible team is known and the minimum collision distance among the
\* evaluated players of that team is strictly below 500; a minimum of 500 or
\* no evaluated player (the 999999 sentinel) gives no Hit Event.
C1_HitIffBelowLimit ==
  FrameDone =>
    ((LastFrame \in DOMAIN all_hits) <=>
       /\ TeamKnown(LastFrame)
       /\ EvaluatedDistances # {}
       /\ Minimum(EvaluatedDistances) < 500)

C1_Witness ==
  /\ FrameDone
  /\ LastFrame \in DOMAIN all_hits
  /\ EvaluatedDistances = {499}

\* C2: at most one Hit Event per frame number, in the mapping and in the
\* records appended to the game statistics, and as many records as keys.
C2_OneHitPerFrame ==
  /\ \A a, b \in 1..Len(proto_hits) :
       proto_hits[a].frame_number = proto_hits[b].frame_number => a = b
  /\ \A f \in DOMAIN all_hits : all_hits[f].frame_number = f
  /\ Len(proto_hits) = Cardinality(DOMAIN all_hits)
  /\ pc = "done" => Len(proto_hits) = Cardinality(DOMAIN returned)

C2_Witness == pc = "done" /\ Len(proto_hits) >= 2

\* C3: the striker of a Hit Event is a player of the responsible team, its
\* collision distance is the minimum over the evaluated players of the team
\* at that frame and is the distance recorded, and among teammates at the
\* same minimum the striker is the first of the team's player list.
C3_StrikerIsFirstClosest ==
  (FrameDone /\ LastFrame \in DOMAIN all_hits) =>
    LET hit == all_hits[LastFrame]
        players == TeamPlayers(ball[LastFrame].hit_team_no[1])
        atMinimum == {k \in 1..Len(evaluated) :
                        /\ evaluated[k].collision_distance # NaN
                        /\ evaluated[k].collision_distance[1] = Minimum(EvaluatedDistances)}
    IN /\ \E n \in 1..Len(players) : players[n] = hit.player
       /\ hit.collision_distance = Minimum(EvaluatedDistances)
       /\ \E k \in atMinimum :
            /\ evaluated[k].player = hit.player
            /\ \A m \in atMinimum : evaluated[k].index <= evaluated[m].index

C3_Witness ==
  /\ FrameDone
  /\ LastFrame \in DOMAIN all_hits
  /\ Len(evaluated) = 2
  /\ evaluated[1].collision_distance = evaluated[2].collision_distance
  /\ all_hits[LastFrame].player = "p1"

\* C4: the selector returns exactly the frames where a component of the
\* angular velocity, defined at the frame and at the frame before it, differs
\* from its value at the frame before; never the first frame; in strictly
\* increasing order without duplicates.
C4_SelectorExact ==
  pc # "init" =>
    /\ \A f \in Frames : (f \in Candidates) <=> Changed(f)
    /\ 0 \notin Candidates
    /\ \A a, b \in 1..Len(hit_frame_numbers) :
         a < b => hit_frame_numbers[a] < hit_frame_numbers[b]

C4_Witness ==
  /\ pc # "init"
  /\ Candidates # {}
  /\ \E f \in Frames \ Candidates :
       /\ f > 0
       /\ \E c \in 1..3 : ball_ang_vel[f][c] = NaN /\ ball_ang_vel[f - 1][c] # NaN
       /\ \E c \in 1..3 : ball_ang_vel[f][c] # NaN /\ ball_ang_vel[f - 1][c] = NaN

C6_MissingPlayerSkipped ==
  (player_rotation # NoVector /\ (HasNaN(player_rotation) \/ HasNaN(player_position)))
    => pc # "raised"

\* C7: get_hits_from_game never raises, whatever the match.
C7_NeverRaises == exception = None

\* C8: the displacement the Striker Resolver computes for a player with
\* complete data equals the displacement of the batch pipeline for the same
\* player and frame, player position minus ball position.
C8_SameDisplacement ==
  (player_rotation # NoVector /\ ~HasNaN(player_rotation) /\ ~HasNaN(player_position))
    => ball_displacement = get_player_ball_displacements(player_position, ball_position)

\* C9: a (frame, player) pair is dropped from evaluation only when no
\* rotation or displacement value remains after the undefined components
\* are removed; with at least one defined component left the player is
\* evaluated by the collision model.
C9_DroppedOnlyWhenEmpty ==
  [][(PlayerNotEvaluated \/ PlayerKeyError)
       => ~any_nonempty(joined(player_rotation', ball_displacement'))]_vars

\* C10: the ball position of every Hit Event is the ball's position at the
\* Hit Event's own frame, in the mapping and in the appended records.
C10_BallPositionOfOwnFrame ==
  /\ \A f \in DOMAIN all_hits : all_hits[f].ball_data = ball[f].pos
  /\ \A k \in 1..Len(proto_hits) :
       proto_hits[k].ball_data = ball[proto_hits[k].frame_number].pos

C10_Witness ==
  /\ FrameDone
  /\ LastFrame \in DOMAIN all_hits
  /\ Len(evaluated) < Len(TeamPlayers(team))
  /\ all_hits[LastFrame].player = "p1"
  /\ \E g \in DOMAIN all_hits : all_hits[g].ball_data # all_hits[LastFrame].ball_data

====
